---- MODULE Spec2Model ----
(***************************************************************************)
(* A model of geolocate/gimethods/find-me/method.py: the FindMe engine     *)
(* (store_location_data, compute_coefficients, calculate_location), and    *)
(* the persisted user-to-lat-lon index of FindMeMethod / FindMeModel.      *)
(*                                                                         *)
(* Numbers are fixed-point integers:                                       *)
(*   latitude / longitude   tenths of a degree                             *)
(*   haversine distance     hundredths of a mile                           *)
(*   distance bucket        tenths of a mile (round(distance, 1))          *)
(*   coefficient a          1e-4,  coefficients b and c   1e-3             *)
(*   log-odds               1e-3                                           *)
(***************************************************************************)
EXTENDS Integers, Sequences, FiniteSets, TLC

\* ------------------------------------------------------------ bounds ----
\* The number of (user_id, loc) pairs user_home_location_iter yields.
MaxStream == 4
\* The number of lines of a user-to-lat-lon.tsv.gz not written by train_model.
MaxLines == 2

\* -------------------------------------------------------- the inputs ----
\* The nodes of the mention network G.
Users == {"A", "B", "C", "D"}
\* A user id of the home-location stream that is no node of G.
Absent == "Z"
StreamIds == Users \cup {Absent}

\* Python's None (falsy, like the empty tuple that stands for it here).
None == <<>>
\* The (0, 0) location that store_location_data skips.
Zero == <<0, 0>>
P1 == <<400, -730>>
P2 == <<410, -740>>
P3 == <<400, -740>>
Locs == {P1, P2, P3}
StreamLocs == Locs \cup {Zero}

\* A simple undirected graph: a set of two-element sets of nodes.
AllEdges == {e \in SUBSET Users : Cardinality(e) = 2}

\* ----------------------------------------------------- coefficients ----
SeedA == 19
SeedB == 196
SeedC == -15
Seed == <<SeedA, SeedB, SeedC>>
\* func_to_fit has three parameters: leastsq needs at least as many points.
NumParams == 3
\* Solutions curve_fit may return: a fit in the paper's regime (p well under
\* 1/2), a fit with p above 1/2 (positive log-odds) and a fit with p >= 1.
FitLow == <<21, 200, -500>>
FitHigh == <<9000, 1000, -10>>
FitBad == <<20000, 1000, 0>>
FitOutcomes == {FitLow, FitHigh, FitBad}

VARIABLES
  edges,                \* G's edges
  data,                 \* G's node data
  nodes_with_data, nodes_without_data,
  a, b, c,
  fitting_dictionary,   \* bucket -> number of additive (1.0/size) added
  yielded,              \* pairs drawn from user_home_location_iter so far
  num_users_seen,
  cc_todo,              \* compute_coefficients: nodes the loop has left
  cl_todo,              \* calculate_location: nodes the outer loop has left
  node,                 \* calculate_location: the outer loop's node
  nbr_todo,             \* calculate_location: neighbors_iter(node) has left
  best_log_probability, best_location,
  evidence,             \* nodes whose node_data calculate_location has read
  log,                  \* the logger.debug messages of FindMe.__init__
  pc,
  \* the persisted index
  network,              \* train_model: FindMe().get_network()'s node data
  trained,              \* the mapping of the model train_model returned
  file,                 \* user-to-lat-lon.tsv.gz: lines, each split on tab
  lineno,               \* load_model: lines of fh read so far
  user_id_to_location,  \* load_model's mapping under construction
  loaded,               \* the mapping of the model load_model returned
  error,                \* the exception load_model raised
  answer,               \* infer_post_location on the two models
  ipc

engineVars == <<edges, data, nodes_with_data, nodes_without_data, a, b, c,
                fitting_dictionary, yielded, num_users_seen, cc_todo, cl_todo,
                node, nbr_todo, best_log_probability, best_location,
                evidence, log, pc>>
indexVars == <<network, trained, file, lineno, user_id_to_location, loaded,
               error, answer, ipc>>
vars == <<engineVars, indexVars>>

NoNode == "none"
\* A FindMeModel holding mapping m, and no model.
Model(m) == <<m>>
NoModel == <<>>

\* ------------------------------------------------------------ graph ----
nodes == Users
neighbors(n) == {m \in Users : {n, m} \in edges}

\* haversine(l_u, l_v, miles=True), in hundredths of a mile.
haversine(l_u, l_v) ==
  IF l_u = l_v THEN 0
  ELSE IF {l_u, l_v} = {P1, P2} THEN 8680
  ELSE IF {l_u, l_v} = {P1, P3} THEN 5293
  ELSE 6909

\* round(distance, 1), in tenths of a mile.
round1(distance) == (distance + 5) \div 10

\* Whether a * (abs(d) + b) ** c lies outside (0, 1): math.log raises.
DomainError(ca, cb, cc, d) == <<ca, cb, cc>> = FitBad

\* math.log(p) - math.log(1 - p) for p = a * (abs(d) + b) ** c.
log_gamma(ca, cb, cc, d) ==
  IF <<ca, cb, cc>> = Seed THEN
    (IF d = 0 THEN -6240 ELSE IF d = 8680 THEN -6331
     ELSE IF d = 5293 THEN -6324 ELSE -6328)
  ELSE IF <<ca, cb, cc>> = FitLow THEN
    (IF d = 0 THEN -5356 ELSE IF d = 8680 THEN -8399
     ELSE IF d = 5293 THEN -8152 ELSE -8285)
  ELSE
    (IF d = 0 THEN 2197 ELSE IF d = 8680 THEN 1820
     ELSE IF d = 5293 THEN 1856 ELSE 1837)

RECURSIVE SumOver(_, _)
\* The sum of f[x] over the finite set S.
SumOver(f, S) ==
  IF S = {} THEN 0
  ELSE LET x == CHOOSE y \in S : TRUE IN f[x] + SumOver(f, S \ {x})

Range(s) == {s[i] : i \in DOMAIN s}

\* ----------------------------------------------- FindMe.__init__ ----
\* The mutant of NextPhase: the inference pass runs before the estimation.
NextPhaseInferenceFirst(p) ==
  IF p = "store" THEN "calc" ELSE IF p = "calc" THEN "coef" ELSE "done"

\* The order in which __init__ runs the three passes.
NextPhase(p) ==
  IF p = "store" THEN "coef" ELSE IF p = "coef" THEN "calc" ELSE "done"

EngineIdle ==
  /\ edges = {} /\ data = [n \in Users |-> None]
  /\ nodes_with_data = {} /\ nodes_without_data = {}
  /\ a = 0 /\ b = 0 /\ c = 0
  /\ fitting_dictionary = <<>>
  /\ yielded = 0 /\ num_users_seen = 0
  /\ cc_todo = {} /\ cl_todo = {} /\ node = NoNode /\ nbr_todo = {}
  /\ best_log_probability = 0 /\ best_location = None
  /\ evidence = {} /\ log = <<>> /\ pc = "off"

IndexIdle ==
  /\ network = <<>> /\ trained = NoModel /\ file = <<>> /\ lineno = 0
  /\ user_id_to_location = <<>> /\ loaded = NoModel /\ error = "none"
  /\ answer = <<>> /\ ipc = "off"

\* FindMe.__init__ up to the call of store_location_data: any mention
\* network, no node data, both sets empty; a, b, c are not assigned yet.
Init ==
  /\ edges \in SUBSET AllEdges
  /\ data = [n \in Users |-> None]
  /\ nodes_with_data = {} /\ nodes_without_data = {}
  /\ a = 0 /\ b = 0 /\ c = 0
  /\ fitting_dictionary = <<>>
  /\ yielded = 0 /\ num_users_seen = 0
  /\ cc_todo = {} /\ cl_todo = {} /\ node = NoNode /\ nbr_todo = {}
  /\ best_log_probability = 0 /\ best_location = None
  /\ evidence = {}
  /\ log = <<"Loading mention network", "Fixing mention network">>
  /\ pc = "store"
  /\ IndexIdle

\* --------------------------------------------- store_location_data ----
\* The mutant of KeyError: set_node_data never raises.
KeyErrorNever(user_id) == FALSE

\* G.set_node_data(user_id, loc) raises KeyError for a user_id that is no
\* node of G.
KeyError(user_id) == user_id \notin nodes

\* One pair of user_home_location_iter: the (0, 0) pair is skipped, a pair
\* of a node of G is stored, any other user_id raises KeyError in
\* set_node_data, before the add, and is passed over.
StoreItem ==
  /\ pc = "store"
  /\ yielded < MaxStream
  /\ \E user_id \in StreamIds, loc \in StreamLocs :
       /\ yielded' = yielded + 1
       /\ \/ /\ loc[1] = 0 /\ loc[2] = 0
             /\ UNCHANGED <<data, nodes_with_data, num_users_seen>>
          \/ /\ ~(loc[1] = 0 /\ loc[2] = 0)
             /\ ~KeyError(user_id)
             /\ data' = [data EXCEPT ![user_id] = loc]
             /\ nodes_with_data' = nodes_with_data \cup {user_id}
             /\ num_users_seen' = num_users_seen + 1
          \/ /\ ~(loc[1] = 0 /\ loc[2] = 0)
             /\ KeyError(user_id)
             /\ UNCHANGED <<data, nodes_with_data, num_users_seen>>
  /\ UNCHANGED <<edges, nodes_without_data, a, b, c, fitting_dictionary,
                 cc_todo, cl_todo, node, nbr_todo, best_log_probability,
                 best_location, evidence, log, pc>>
  /\ UNCHANGED indexVars

\* The stream ends: every node not in nodes_with_data goes to
\* nodes_without_data; back in __init__ the seed coefficients are assigned.
StoreClassify ==
  /\ pc = "store"
  /\ nodes_without_data' =
       nodes_without_data \cup {user_id \in nodes : user_id \notin nodes_with_data}
  /\ log' = Append(log, "Mention network fixed!")
  /\ a' = SeedA /\ b' = SeedB /\ c' = SeedC
  /\ pc' = NextPhase("store")
  /\ UNCHANGED <<edges, data, nodes_with_data, fitting_dictionary, yielded,
                 num_users_seen, cc_todo, cl_todo, node, nbr_todo,
                 best_log_probability, best_location, evidence>>
  /\ UNCHANGED indexVars

\* --------------------------------------------- compute_coefficients ----
\* fitting_dictionary[k] += additive, on a defaultdict(float).
Bump(fd, k) ==
  [x \in DOMAIN fd \cup {k} |->
     IF x \in DOMAIN fd THEN (IF x = k THEN fd[x] + 1 ELSE fd[x]) ELSE 1]

RECURSIVE Accumulate(_, _, _)
\* The inner loop: each neighbor in S whose node data is truthy adds one
\* additive to the bucket of its distance from location_u.
Accumulate(fd, location_u, S) ==
  IF S = {} THEN fd
  ELSE LET neighbor == CHOOSE x \in S : TRUE
           location_v == data[neighbor]
       IN IF location_v = None
          THEN Accumulate(fd, location_u, S \ {neighbor})
          ELSE Accumulate(Bump(fd, round1(haversine(location_u, location_v))),
                          location_u, S \ {neighbor})

\* The mutant of CoefStep: a node adds one additive per bucket, however
\* many of its neighbors fall in the bucket.
CoefStepOncePerBucket(fd, n) ==
  LET hit == {round1(haversine(data[n], data[m])) :
                m \in {x \in neighbors(n) : data[x] # None}}
  IN [x \in DOMAIN fd \cup hit |->
        IF x \in DOMAIN fd THEN (IF x \in hit THEN fd[x] + 1 ELSE fd[x]) ELSE 1]

\* One iteration of "for node in self.nodes_with_data".
CoefStep(fd, n) == Accumulate(fd, data[n], neighbors(n))

\* size == 0: compute_coefficients returns at once.
CoefEmpty ==
  /\ pc = "coef"
  /\ Cardinality(nodes_with_data) = 0
  /\ log' = Append(log, "Computing coefficients")
  /\ pc' = NextPhase("coef")
  /\ UNCHANGED <<edges, data, nodes_with_data, nodes_without_data, a, b, c,
                 fitting_dictionary, yielded, num_users_seen, cc_todo, cl_todo,
                 node, nbr_todo, best_log_probability, best_location, evidence>>
  /\ UNCHANGED indexVars

CoefStart ==
  /\ pc = "coef"
  /\ Cardinality(nodes_with_data) # 0
  /\ log' = Append(log, "Computing coefficients")
  /\ fitting_dictionary' = <<>>
  /\ cc_todo' = nodes_with_data
  /\ pc' = "hist"
  /\ UNCHANGED <<edges, data, nodes_with_data, nodes_without_data, a, b, c,
                 yielded, num_users_seen, cl_todo, node, nbr_todo,
                 best_log_probability, best_location, evidence>>
  /\ UNCHANGED indexVars

CoefNode ==
  /\ pc = "hist"
  /\ \E n \in cc_todo :
       /\ fitting_dictionary' = CoefStep(fitting_dictionary, n)
       /\ cc_todo' = cc_todo \ {n}
  /\ UNCHANGED <<edges, data, nodes_with_data, nodes_without_data, a, b, c,
                 yielded, num_users_seen, cl_todo, node, nbr_todo,
                 best_log_probability, best_location, evidence, log, pc>>
  /\ UNCHANGED indexVars

\* Whether curve_fit(func_to_fit, x, y, maxfev=100000) can return: leastsq
\* raises TypeError ("Improper input: N=3 must not exceed M") on fewer
\* points than parameters, the empty histogram included.
CanFit(fd) == Cardinality(DOMAIN fd) >= NumParams

\* curve_fit returns a solution, which becomes a, b, c.
CurveFitOk ==
  /\ pc = "hist" /\ cc_todo = {}
  /\ CanFit(fitting_dictionary)
  /\ \E solutions \in FitOutcomes :
       /\ a' = solutions[1] /\ b' = solutions[2] /\ c' = solutions[3]
  /\ pc' = NextPhase("coef")
  /\ UNCHANGED <<edges, data, nodes_with_data, nodes_without_data,
                 fitting_dictionary, yielded, num_users_seen, cc_todo, cl_todo,
                 node, nbr_todo, best_log_probability, best_location,
                 evidence, log>>
  /\ UNCHANGED indexVars

\* curve_fit raises (too few points, or no convergence within maxfev): the
\* exception leaves compute_coefficients and __init__.
CurveFitError ==
  /\ pc = "hist" /\ cc_todo = {}
  /\ pc' = "failed"
  /\ UNCHANGED <<edges, data, nodes_with_data, nodes_without_data, a, b, c,
                 fitting_dictionary, yielded, num_users_seen, cc_todo, cl_todo,
                 node, nbr_todo, best_log_probability, best_location,
                 evidence, log>>
  /\ UNCHANGED indexVars

\* ----------------------------------------------- calculate_location ----
\* The mutant of IsEvidence: a neighbor counts when its node data is set
\* (the test compute_coefficients makes), inferred data included.
HasNodeData(n) == data[n] # None

\* "if neighbor not in self.nodes_with_data: continue", for neighbor_u and
\* for neighbor_v.
IsEvidence(n) == n \in nodes_with_data

\* The neighbor_v the inner loop does not pass over.
KnownNeighbors(n) == {m \in neighbors(n) : IsEvidence(m)}

\* log_probability after the inner loop over neighbors_iter(neighbor_u).
LogProbability(neighbor_u) ==
  LET l_u == data[neighbor_u]
  IN SumOver([neighbor_v \in KnownNeighbors(neighbor_u) |->
                log_gamma(a, b, c, haversine(l_u, data[neighbor_v]))],
             KnownNeighbors(neighbor_u))

\* Whether math.log raises ValueError in the inner loop.
LogRaises(neighbor_u) ==
  \E neighbor_v \in KnownNeighbors(neighbor_u) :
    DomainError(a, b, c, haversine(data[neighbor_u], data[neighbor_v]))

CalcEnter ==
  /\ pc = "calc"
  /\ log' = Append(log, "Calculating locations")
  /\ cl_todo' = nodes_without_data
  /\ node' = NoNode /\ nbr_todo' = {}
  /\ pc' = "loop"
  /\ UNCHANGED <<edges, data, nodes_with_data, nodes_without_data, a, b, c,
                 fitting_dictionary, yielded, num_users_seen, cc_todo,
                 best_log_probability, best_location, evidence>>
  /\ UNCHANGED indexVars

\* "for node in self.nodes_without_data": the next node, in any order.
CalcNextNode ==
  /\ pc = "loop" /\ node = NoNode
  /\ \E n \in cl_todo :
       /\ node' = n
       /\ cl_todo' = cl_todo \ {n}
       /\ nbr_todo' = neighbors(n)
  /\ best_log_probability' = 0
  /\ UNCHANGED <<edges, data, nodes_with_data, nodes_without_data, a, b, c,
                 fitting_dictionary, yielded, num_users_seen, cc_todo,
                 best_location, evidence, log, pc>>
  /\ UNCHANGED indexVars

\* "for neighbor_u in self.G.neighbors_iter(node)": the next neighbor, in
\* any order, and the whole body of the loop for it.
CalcNeighbor ==
  /\ pc = "loop" /\ node # NoNode
  /\ \E neighbor_u \in nbr_todo :
       /\ nbr_todo' = nbr_todo \ {neighbor_u}
       /\ \/ /\ ~IsEvidence(neighbor_u)
             /\ UNCHANGED <<data, best_log_probability, best_location,
                            evidence, pc>>
          \/ /\ IsEvidence(neighbor_u)
             /\ LogRaises(neighbor_u)
             /\ evidence' = evidence \cup {neighbor_u}
                              \cup KnownNeighbors(neighbor_u)
             /\ best_location' = data[neighbor_u]
             /\ pc' = "failed"
             /\ UNCHANGED <<data, best_log_probability>>
          \/ /\ IsEvidence(neighbor_u)
             /\ ~LogRaises(neighbor_u)
             /\ evidence' = evidence \cup {neighbor_u}
                              \cup KnownNeighbors(neighbor_u)
             /\ LET log_probability == LogProbability(neighbor_u)
                    \* line 260, before the inner loop
                    first == data[neighbor_u]
                    improved == log_probability >= best_log_probability
                IN /\ best_location' =
                        (IF improved THEN data[neighbor_u] ELSE first)
                   /\ best_log_probability' =
                        (IF improved THEN log_probability
                         ELSE best_log_probability)
             /\ data' = (IF best_location' # None
                         THEN [data EXCEPT ![node] = best_location']
                         ELSE data)
             /\ UNCHANGED pc
  /\ UNCHANGED <<edges, nodes_with_data, nodes_without_data, a, b, c,
                 fitting_dictionary, yielded, num_users_seen, cc_todo,
                 cl_todo, node, log>>
  /\ UNCHANGED indexVars

\* neighbors_iter(node) is exhausted.
CalcEndNode ==
  /\ pc = "loop" /\ node # NoNode /\ nbr_todo = {}
  /\ node' = NoNode
  /\ UNCHANGED <<edges, data, nodes_with_data, nodes_without_data, a, b, c,
                 fitting_dictionary, yielded, num_users_seen, cc_todo,
                 cl_todo, nbr_todo, best_log_probability, best_location,
                 evidence, log, pc>>
  /\ UNCHANGED indexVars

\* The outer loop is exhausted: calculate_location returns.
CalcDone ==
  /\ pc = "loop" /\ node = NoNode /\ cl_todo = {}
  /\ log' = Append(log, "Done calculating locations")
  /\ pc' = NextPhase("calc")
  /\ UNCHANGED <<edges, data, nodes_with_data, nodes_without_data, a, b, c,
                 fitting_dictionary, yielded, num_users_seen, cc_todo,
                 cl_todo, node, nbr_todo, best_log_probability,
                 best_location, evidence>>
  /\ UNCHANGED indexVars

\* ------------------------------------------------ persisted index ----
\* A float is +-0.d1d2...dn * 10^exp, by the digits of its shortest repr.
Float(neg, digits, exp) == [neg |-> neg, digits |-> digits, exp |-> exp]
F40 == Float(FALSE, <<4>>, 2)
Fm73 == Float(TRUE, <<7, 3>>, 2)
\* 40.7127761234567 and -73.9851355999999
F40x == Float(FALSE, <<4, 0, 7, 1, 2, 7, 7, 6, 1, 2, 3, 4, 5, 6, 7>>, 2)
Fm73x == Float(TRUE, <<7, 3, 9, 8, 5, 1, 3, 5, 5, 9, 9, 9, 9, 9, 9>>, 2)
IndexLocs == {<<F40, Fm73>>, <<F40x, Fm73>>, <<F40, Fm73x>>}

\* User ids as the graph supplies them: the int 7, the strings "7", "12".
Ids == {<<"int", "7">>, <<"str", "7">>, <<"str", "12">>}
IdStrs == {"7", "12"}

\* The significant digits of Python 2's str(float), which "%s" applies.
StrDigits == 12

RECURSIVE Strip(_)
\* Without the trailing zeros.
Strip(ds) ==
  IF ds = <<>> THEN <<>>
  ELSE IF ds[Len(ds)] = 0 THEN Strip(SubSeq(ds, 1, Len(ds) - 1)) ELSE ds

RECURSIVE Inc(_)
\* One more in the last place, trailing zeros dropped; <<>> when every
\* digit was 9.
Inc(ds) ==
  IF ds = <<>> THEN <<>>
  ELSE IF ds[Len(ds)] = 9 THEN Inc(SubSeq(ds, 1, Len(ds) - 1))
  ELSE [ds EXCEPT ![Len(ds)] = ds[Len(ds)] + 1]

\* The text of a float field; ok is whether float() parses it.
Text(neg, digits, exp) ==
  [ok |-> TRUE, neg |-> neg, digits |-> digits, exp |-> exp]
Junk == [ok |-> FALSE, neg |-> FALSE, digits |-> <<>>, exp |-> 0]

\* "%s" % f: f rounded to StrDigits significant digits.
StrFloat(f) ==
  IF Len(f.digits) <= StrDigits THEN Text(f.neg, f.digits, f.exp)
  ELSE LET head == SubSeq(f.digits, 1, StrDigits)
       IN IF f.digits[StrDigits + 1] >= 5
          THEN (IF Inc(head) = <<>> THEN Text(f.neg, <<1>>, f.exp + 1)
                ELSE Text(f.neg, Inc(head), f.exp))
          ELSE Text(f.neg, Strip(head), f.exp)

\* float(text), for a text that parses.
ParseFloat(t) == Float(t.neg, t.digits, t.exp)

\* "%s" % user_id
IdText(user_id) == user_id[2]

\* The line train_model writes for an entry, split on tab.
Line(user_id, loc) == <<IdText(user_id), StrFloat(loc[1]), StrFloat(loc[2])>>

\* d[k] = v on a dict.
Put(d, k, v) == [x \in DOMAIN d \cup {k} |-> IF x = k THEN v ELSE d[x]]

\* self.user_id_to_location[userID], None on KeyError.
Lookup(model, userID) ==
  IF model = NoModel THEN None
  ELSE IF userID \in DOMAIN model[1] THEN model[1][userID] ELSE None

\* The orders in which a dict of the keys S iterates.
Orders(S) == {f \in [1..Cardinality(S) -> S] : Range(f) = S}

\* Lines of a file that train_model did not write.
LineSet ==
  { <<"7", StrFloat(F40), StrFloat(Fm73)>>,
    <<"12", StrFloat(F40), StrFloat(Fm73)>>,
    <<"7", StrFloat(F40)>>,
    <<"">>,
    <<"7", Junk, StrFloat(Fm73)>>,
    <<"7", StrFloat(F40), Junk>> }
FileSet == UNION {[1..n -> LineSet] : n \in 0..MaxLines}

\* A training session, with the node data FindMe left on the network, or
\* a loading session, with a file found in model_dir.
InitIndex ==
  /\ EngineIdle
  /\ trained = NoModel /\ lineno = 0 /\ user_id_to_location = <<>>
  /\ loaded = NoModel /\ error = "none" /\ answer = <<>>
  /\ \/ /\ network \in [Ids -> IndexLocs \cup {None}]
        /\ file = <<>>
        /\ ipc = "idle"
     \/ /\ network = <<>>
        /\ file \in FileSet
        /\ ipc = "saved"

\* train_model: the entries are the nodes whose data is not None; with a
\* model_dir the lines are written in the dict's iteration order.
TrainModel ==
  /\ ipc = "idle"
  /\ LET located == {user_id \in DOMAIN network : network[user_id] # None}
         mapping == [user_id \in located |-> network[user_id]]
     IN /\ trained' = Model(mapping)
        /\ \/ /\ \E order \in Orders(located) :
                   file' = [i \in 1..Cardinality(located) |->
                              Line(order[i], mapping[order[i]])]
              /\ ipc' = "saved"
           \/ /\ UNCHANGED file
              /\ ipc' = "trained"
  /\ UNCHANGED <<network, lineno, user_id_to_location, loaded, error, answer>>
  /\ UNCHANGED engineVars

\* The exception the body of "for line in fh" raises on cols, in Python's
\* order of evaluation of (float(cols[1]), float(cols[2])).
Raises(cols) ==
  IF Len(cols) < 2 THEN "IndexError"
  ELSE IF ~cols[2].ok THEN "ValueError"
  ELSE IF Len(cols) < 3 THEN "IndexError"
  ELSE IF ~cols[3].ok THEN "ValueError"
  ELSE "none"

LoadOpen ==
  /\ ipc = "saved"
  /\ user_id_to_location' = <<>>
  /\ lineno' = 0
  /\ ipc' = "loading"
  /\ UNCHANGED <<network, trained, file, loaded, error, answer>>
  /\ UNCHANGED engineVars

\* The mutant of LoadStep: a line that raises is passed over.
LoadStepSkipsBadLine(d, cols) ==
  IF Raises(cols) # "none" THEN [error |-> "none", mapping |-> d]
  ELSE [error |-> "none",
        mapping |-> Put(d, <<"str", cols[1]>>,
                        <<ParseFloat(cols[2]), ParseFloat(cols[3])>>)]

\* The body of "for line in fh" on the mapping d: the exception raised, or
\* d with the line's entry, keyed by the string cols[0].
LoadStep(d, cols) ==
  IF Raises(cols) # "none" THEN [error |-> Raises(cols), mapping |-> d]
  ELSE [error |-> "none",
        mapping |-> Put(d, <<"str", cols[1]>>,
                        <<ParseFloat(cols[2]), ParseFloat(cols[3])>>)]

\* One line of the file: an entry of the mapping, or an exception that
\* leaves load_model.
LoadLine ==
  /\ ipc = "loading"
  /\ lineno < Len(file)
  /\ LET step == LoadStep(user_id_to_location, file[lineno + 1])
     IN \/ /\ step.error # "none"
           /\ error' = step.error
           /\ ipc' = "load_failed"
           /\ UNCHANGED <<user_id_to_location, lineno>>
        \/ /\ step.error = "none"
           /\ user_id_to_location' = step.mapping
           /\ lineno' = lineno + 1
           /\ UNCHANGED <<error, ipc>>
  /\ UNCHANGED <<network, trained, file, loaded, answer>>
  /\ UNCHANGED engineVars

LoadReturn ==
  /\ ipc = "loading"
  /\ lineno = Len(file)
  /\ loaded' = Model(user_id_to_location)
  /\ ipc' = "loaded"
  /\ UNCHANGED <<network, trained, file, lineno, user_id_to_location, error,
                 answer>>
  /\ UNCHANGED engineVars

\* infer_post_location, on the trained and on the loaded model, for a post
\* whose post['user']['id_str'] is id_str.
InferPost ==
  /\ ipc \in {"trained", "loaded"}
  /\ \E id_str \in IdStrs :
       answer' = <<id_str, Lookup(trained, <<"str", id_str>>),
                   Lookup(loaded, <<"str", id_str>>)>>
  /\ UNCHANGED <<network, trained, file, lineno, user_id_to_location, loaded,
                 error, ipc>>
  /\ UNCHANGED engineVars

\* ------------------------------------------------ the specifications ----
\* One run of FindMe.__init__.
Next ==
  \/ StoreItem \/ StoreClassify
  \/ CoefEmpty \/ CoefStart \/ CoefNode \/ CurveFitOk \/ CurveFitError
  \/ CalcEnter \/ CalcNextNode \/ CalcNeighbor \/ CalcEndNode \/ CalcDone

Spec == Init /\ [][Next]_vars

\* calculate_location on any classified network: any graph, any known
\* locations, the seed coefficients or fitted ones.
InitPass ==
  /\ edges \in SUBSET AllEdges
  /\ nodes_with_data \in SUBSET Users
  /\ nodes_without_data = Users \ nodes_with_data
  /\ data \in [Users -> Locs \cup {None}]
  /\ \A n \in Users : (data[n] # None) <=> (n \in nodes_with_data)
  /\ \E coefficients \in {Seed} \cup FitOutcomes :
       a = coefficients[1] /\ b = coefficients[2] /\ c = coefficients[3]
  /\ fitting_dictionary = <<>>
  /\ yielded = 0 /\ num_users_seen = 0
  /\ cc_todo = {} /\ cl_todo = {} /\ node = NoNode /\ nbr_todo = {}
  /\ best_log_probability = 0 /\ best_location = None
  /\ evidence = {} /\ log = <<>>
  /\ pc = "calc"
  /\ IndexIdle

NextPass ==
  \/ CalcEnter \/ CalcNextNode \/ CalcNeighbor \/ CalcEndNode \/ CalcDone

SpecPass == InitPass /\ [][NextPass]_vars

\* train_model, load_model and infer_post_location.
NextIndex == TrainModel \/ LoadOpen \/ LoadLine \/ LoadReturn \/ InferPost

SpecIndex == InitIndex /\ [][NextIndex]_vars

\* ------------------------------------------------------- the claims ----
\* The known first-hop neighbours of u, by membership of nodes_with_data.
KnownFirstHop(u) == neighbors(u) \cap nodes_with_data

\* The sum of the log-odds over n1's known neighbours.
Accumulated(n1) ==
  SumOver([n2 \in neighbors(n1) \cap nodes_with_data |->
             log_gamma(a, b, c, haversine(data[n1], data[n2]))],
          neighbors(n1) \cap nodes_with_data)

\* C1: when the pass has left a location on a user u of nodes_without_data,
\* it is the location of a known first-hop neighbour of u whose accumulated
\* log-probability is at least that of every known first-hop neighbour of u.
C1_ArgmaxSelection ==
  pc = "done" =>
    \A u \in nodes_without_data :
      data[u] # None =>
        \E n1 \in KnownFirstHop(u) :
          /\ data[u] = data[n1]
          /\ \A n \in KnownFirstHop(u) : Accumulated(n1) >= Accumulated(n)

\* The path A - B - C - D with A at (40.0, -73.0) and D at (41.0, -74.0)
\* known, B and C unknown.
PathScenario ==
  /\ edges = {{"A", "B"}, {"B", "C"}, {"C", "D"}}
  /\ nodes_with_data = {"A", "D"}
  /\ nodes_without_data = {"B", "C"}
  /\ data["A"] = P1 /\ data["D"] = P2

C3_NoChaining ==
  pc = "done" =>
    \A u \in nodes_without_data :
      /\ (data[u] # None) <=> (KnownFirstHop(u) # {})
      /\ data[u] # None => \E n \in KnownFirstHop(u) : data[u] = data[n]

\* A finished pass in which a user with no known neighbour stays without a
\* location beside a neighbour that was given one.
C3_Witness ==
  /\ pc = "done"
  /\ \E u \in nodes_without_data, v \in nodes_without_data :
       /\ v \in neighbors(u)
       /\ KnownFirstHop(u) = {} /\ data[u] = None
       /\ data[v] # None

\* C6: the pass writes node data only onto nodes of nodes_without_data,
\* leaves both sets and the edges as they were, and reads node data only
\* of nodes of nodes_with_data.
C6_Frame ==
  /\ [](evidence \subseteq nodes_with_data)
  /\ [][/\ \A n \in Users : data'[n] # data[n] => n \in nodes_without_data
        /\ nodes_with_data' = nodes_with_data
        /\ nodes_without_data' = nodes_without_data
        /\ edges' = edges]_vars

C6_Witness ==
  /\ pc = "done"
  /\ evidence # {}
  /\ \E u \in nodes_without_data : data[u] # None
  /\ \E u \in nodes_without_data : data[u] = None /\ neighbors(u) # {}

\* C4, as stated: whenever the histogram handed to the fit is empty (no
\* known node, or known nodes none of which has a known neighbour), the fit
\* is skipped, a, b, c keep the seed values and the run goes on to the
\* inference pass.
C4_EmptyHistogramSkipsFit ==
  [][((pc = "coef" /\ nodes_with_data = {})
        \/ (pc = "hist" /\ cc_todo = {} /\ DOMAIN fitting_dictionary = {}))
      => (pc' = "calc" /\ a' = SeedA /\ b' = SeedB /\ c' = SeedC)]_vars

\* C5: once store_location_data has returned, nodes_with_data and
\* nodes_without_data are disjoint and together are the nodes of G.
C5_Partition ==
  pc # "store" =>
    /\ nodes_with_data \cap nodes_without_data = {}
    /\ nodes_with_data \cup nodes_without_data = nodes

\* After a stream with a pair that was passed over (the (0, 0) pair or a
\* user id that is no node) and a user id that came twice.
C5_Witness ==
  /\ pc = "coef"
  /\ yielded > num_users_seen
  /\ num_users_seen > Cardinality(nodes_with_data)
  /\ nodes_without_data # {}

\* A location written by the inference pass.
Inferred == \E u \in nodes : u \notin nodes_with_data /\ data[u] # None

\* C7: classification is complete before coefficient estimation starts,
\* estimation is complete before the first inferred location is written,
\* and a, b, c do not change once the inference pass has begun.
C7_PassOrdering ==
  /\ []((pc = "hist" \/ "Computing coefficients" \in Range(log))
          => /\ "Mention network fixed!" \in Range(log)
             /\ nodes_without_data = nodes \ nodes_with_data)
  /\ [](Inferred
          => /\ "Computing coefficients" \in Range(log)
             /\ pc \notin {"store", "coef", "hist"})
  /\ [][("Calculating locations" \in Range(log))
          => (a' = a /\ b' = b /\ c' = c)]_vars

\* A finished run with fitted coefficients and an inferred location.
C7_Witness == pc = "done" /\ <<a, b, c>> # Seed /\ Inferred

\* The histogram is complete.
HistogramBuilt ==
  pc \notin {"store", "coef"} /\ ~(pc = "hist" /\ cc_todo # {})

\* The ordered pairs (known user, known neighbour) at bucket k.
PairsAt(k) ==
  {p \in nodes_with_data \X nodes_with_data :
     /\ p[2] \in neighbors(p[1])
     /\ round1(haversine(data[p[1]], data[p[2]])) = k}

\* The known users with at least one known neighbour at bucket k.
UsersAt(k) == {p[1] : p \in PairsAt(k)}

AllBuckets == {round1(haversine(l1, l2)) : l1 \in Locs, l2 \in Locs}

\* C10, as stated: the frequency of a bucket is the number of known users
\* with at least one known neighbour at that distance, over |KnownSet|, and
\* so is at most 1.
C10_Original ==
  HistogramBuilt =>
    \A k \in DOMAIN fitting_dictionary :
      /\ fitting_dictionary[k] = Cardinality(UsersAt(k))
      /\ fitting_dictionary[k] <= Cardinality(nodes_with_data)

\* C10, amended: the frequency of a bucket is the number of ordered pairs
\* (known user, known neighbour of it) at that distance, over |KnownSet|;
\* the buckets of the histogram are those with such a pair.
C10_PairFrequency ==
  HistogramBuilt =>
    /\ DOMAIN fitting_dictionary = {k \in AllBuckets : PairsAt(k) # {}}
    /\ \A k \in DOMAIN fitting_dictionary :
         fitting_dictionary[k] = Cardinality(PairsAt(k))

\* A histogram with a frequency above 1.
C10_Witness ==
  /\ HistogramBuilt
  /\ \E k \in DOMAIN fitting_dictionary :
       fitting_dictionary[k] > Cardinality(nodes_with_data)

\* A line load_model can take: three fields at least, the second and the
\* third the text of a float.
WellFormed(cols) == Len(cols) >= 3 /\ cols[2].ok /\ cols[3].ok
Malformed == \E i \in DOMAIN file : ~WellFormed(file[i])
FirstBad == CHOOSE i \in DOMAIN file :
              ~WellFormed(file[i]) /\ \A j \in 1..(i - 1) : WellFormed(file[j])

\* C8, as stated: load_model of a file with a malformed line fails with a
\* FormatError and returns no model.
C8_Original ==
  (ipc \in {"loaded", "load_failed"} /\ Malformed) =>
    (ipc = "load_failed" /\ error = "FormatError" /\ loaded = NoModel)

\* C8, amended: load_model of a file with a malformed line fails at the
\* first such line, with an IndexError (too few fields) or a ValueError (a
\* field that is no float), and returns no model.
C8_MalformedAborts ==
  (ipc \in {"loaded", "load_failed"} /\ Malformed) =>
    /\ ipc = "load_failed"
    /\ error \in {"IndexError", "ValueError"}
    /\ lineno = FirstBad - 1
    /\ loaded = NoModel

\* load_model has failed on a bad line that follows a good one.
C8_Witness == ipc = "load_failed" /\ lineno > 0 /\ loaded = NoModel

\* C9: the mapping of the model load_model builds from the file
\* train_model wrote is the mapping of the model train_model returned, and
\* a lookup by id_str answers the same on both.
C9_RoundTrip ==
  (ipc = "loaded" /\ trained # NoModel) =>
    /\ loaded = trained
    /\ \A id_str \in IdStrs :
         Lookup(trained, <<"str", id_str>>) = Lookup(loaded, <<"str", id_str>>)

====
